---- MODULE Spec2Model ----
(***************************************************************************)
(* Master/worker voxel selection of brainiak.fcma.voxelselector.           *)
(*                                                                         *)
(* One MPI job of `size` ranks: rank 0 runs VoxelSelector._master, ranks    *)
(* 1..size-1 run VoxelSelector._worker.  Messages travel over ordered       *)
(* point-to-point channels.  comm.send is MPI's standard-mode send: the     *)
(* library may buffer the message (eager) or hold the sender until the      *)
(* matching receive is posted (rendezvous); `eager` fixes which, per run.   *)
(***************************************************************************)
EXTENDS Integers, Sequences, FiniteSets, TLC

\* ---------------------------------------------------------------- bounds
MaxVoxels == 4      \* num_voxels ranges over 0..MaxVoxels
MaxUnit == 3        \* voxel_unit ranges over 0..MaxUnit
MaxSize == 4        \* MPI world size ranges over 1..MaxSize
NumScores == 3      \* accuracies range over 0..NumScores-1

\* ------------------------------------------------------ program constants
_WORKTAG == 0
_TERMINATETAG == 1

None == <<>>        \* payload of the TERMINATE message: comm.send(None, ...)

VARIABLES
    num_voxels,     \* self.num_voxels = raw_data[0].shape[1]
    voxel_unit,     \* self.voxel_unit
    size,           \* comm.Get_size()
    accuracy,       \* accuracy[v]: scores.mean() of the classifier on voxel v
    eager,          \* TRUE: sends are buffered; FALSE: sends rendezvous
    m_pc,           \* position of rank 0
    i,              \* loop variable of the current for-loop of _master
    current_task,   \* _master: current_task = (start, count)
    using_size,     \* _master: using_size
    status_source,  \* _master: status.Get_source() of the last refill recv
    results,        \* _master: results, in order of arrival
    ranking,        \* what run returns on rank 0 (results after the sort)
    pc,             \* pc[w]: position of worker rank w
    task,           \* task[w]: the task worker w is scoring
    toWorker,       \* toWorker[w]: messages in flight rank 0 -> rank w
    toMaster,       \* toMaster[w]: messages in flight rank w -> rank 0
    mlog,           \* history: sends and receives of rank 0, in order
    wlog,           \* history: wlog[w], receives and sends of rank w
    scored          \* scored[w]: results of _crossValidation on rank w when
                    \* it last returned or raised

vars == <<num_voxels, voxel_unit, size, accuracy, eager, m_pc, i,
          current_task, using_size, status_source, results, ranking,
          pc, task, toWorker, toMaster, mlog, wlog, scored>>

Workers == 1..(size - 1)
AllRanks == 1..(MaxSize - 1)
Voxels == 0..(num_voxels - 1)

\* ------------------------------------------------------ pure computations

\* __init__: "if self.num_voxels == 0: raise ValueError"
ZeroVoxelsAccepted(n) == FALSE
InvalidConfiguration(n) == n = 0

\* sending_voxels = voxel_unit if voxel_unit < num_voxels - next_start
\*                  else num_voxels - next_start
SendingVoxelsDropTail(next_start) ==
    IF voxel_unit < num_voxels - next_start THEN voxel_unit ELSE 0
SendingVoxelsOne(next_start) ==
    IF num_voxels - next_start > 0 THEN 1 ELSE 0
SendingVoxels(next_start) ==
    IF voxel_unit < num_voxels - next_start THEN voxel_unit
    ELSE num_voxels - next_start

\* current_task = (next_start, sending_voxels) after sending t
NextTask(t) ==
    LET next_start == t[1] + t[2] IN <<next_start, SendingVoxels(next_start)>>

\* using_size = i on the break of the fill loop
FillBreakShort(k) == IF k > 1 THEN k - 1 ELSE k
FillBreakLong(k) == k + 1
FillBreakUsingSize(k) == k

\* dest=i of the fill send
FillDestReversed(k) == size - k
FillDest(k) == k

\* dest=status.Get_source() of the refill send
RefillDestFirst(src) == 1
RefillDest(src) == src

\* range(1, using_size) of the drain loop
DrainBoundShort == using_size - 1
DrainBound == using_size

\* what a worker sends to rank 0 when _voxelScoring raises after scoring
\* the records `partial`: nothing, the exception leaves the loop
SentOnRaisePartial(partial) == <<partial>>
SentOnRaise(partial) == <<>>

\* range(1, size) of the terminate loop
TerminateBoundUsing == using_size
TerminateBound == size

\* "if status.Get_tag(): break" of the worker loop
WorkerBreaksInverted(tag) == tag = 0
WorkerBreaks(tag) == tag # 0

\* _crossValidation: results.append((i + task[0], scores.mean())) for i in
\* range(sv), sv = task[1]
RECURSIVE CrossValidationNoOffset(_, _)
CrossValidationNoOffset(t, sv) ==
    IF sv <= 0 THEN <<>>
    ELSE Append(CrossValidationNoOffset(t, sv - 1),
                <<sv - 1, accuracy[sv - 1]>>)
RECURSIVE CrossValidation(_, _)
CrossValidation(t, sv) ==
    IF sv <= 0 THEN <<>>
    ELSE Append(CrossValidation(t, sv - 1),
                <<(sv - 1) + t[1], accuracy[(sv - 1) + t[1]]>>)

\* _voxelScoring(task, clf)
VoxelScoring(t) == CrossValidation(t, t[2])

\* list.sort(key=lambda tup: tup[1], reverse=True): descending by tup[1],
\* stable (records with equal keys keep their order in the list).  The
\* record at index j moves to the place after every record with a larger
\* key and every earlier record with the same key.
Unsorted(s) == s
SortTiesReversed(s) ==
    LET Place(j) ==
            1 + Cardinality({k \in DOMAIN s : s[k][2] > s[j][2]})
              + Cardinality({k \in DOMAIN s : k > j /\ s[k][2] = s[j][2]})
    IN [p \in DOMAIN s |-> s[CHOOSE j \in DOMAIN s : Place(j) = p]]
SortByAccuracy(s) ==
    LET Place(j) ==
            1 + Cardinality({k \in DOMAIN s : s[k][2] > s[j][2]})
              + Cardinality({k \in DOMAIN s : k < j /\ s[k][2] = s[j][2]})
    IN [p \in DOMAIN s |-> s[CHOOSE j \in DOMAIN s : Place(j) = p]]

\* ------------------------------------------------------------- messaging

WorkMsg(t) == [tag |-> _WORKTAG, payload |-> t]
TerminateMsg == [tag |-> _TERMINATETAG, payload |-> None]

\* rank 0 is blocked in comm.recv(source=ANY_SOURCE, tag=ANY_TAG)
MasterInRecv ==
    \/ m_pc = "refill" /\ using_size = size /\ current_task[2] # 0
    \/ m_pc = "drain" /\ i < DrainBound

\* a standard-mode send to worker w / to rank 0 can complete
CanSendToWorker(w) == eager \/ pc[w] = "recv"
CanSendToMaster == eager \/ MasterInRecv

\* one send or receive of rank 0, with the phase of _master it happens in
MEvent(op, peer, t) ==
    [op |-> op, peer |-> peer, task |-> t, phase |-> m_pc]
WEvent(op, t) == [op |-> op, task |-> t]

\* ----------------------------------------------------------------- Init

Init ==
    /\ num_voxels \in 0..MaxVoxels
    /\ voxel_unit \in 0..MaxUnit
    /\ size \in 1..MaxSize
    /\ accuracy \in [0..(num_voxels - 1) -> 0..(NumScores - 1)]
    /\ eager \in BOOLEAN
    /\ m_pc = "new"
    /\ i = 0
    /\ current_task = <<0, 0>>
    /\ using_size = 0
    /\ status_source = 0
    /\ results = <<>>
    /\ ranking = <<>>
    /\ pc = [w \in AllRanks |-> IF w < size THEN "new" ELSE "absent"]
    /\ task = [w \in AllRanks |-> None]
    /\ toWorker = [w \in AllRanks |-> <<>>]
    /\ toMaster = [w \in AllRanks |-> <<>>]
    /\ mlog = <<>>
    /\ wlog = [w \in AllRanks |-> <<>>]
    /\ scored = [w \in AllRanks |-> <<>>]

params == <<num_voxels, voxel_unit, size, accuracy, eager>>
workerVars == <<pc, task, wlog, scored>>
masterVars == <<m_pc, i, current_task, using_size, status_source,
                results, ranking, mlog>>

\* ------------------------------------------------------------- rank 0

\* VoxelSelector(...) raises ValueError on rank 0
MasterConstructFails ==
    /\ m_pc = "new"
    /\ InvalidConfiguration(num_voxels)
    /\ m_pc' = "ValueError"
    /\ UNCHANGED <<params, i, current_task, using_size, status_source,
                   results, ranking, mlog, workerVars, toWorker, toMaster>>

\* VoxelSelector(...); run(clf) on rank 0 up to the fill loop of _master
MasterStart ==
    /\ m_pc = "new"
    /\ ~InvalidConfiguration(num_voxels)
    /\ results' = <<>>
    /\ current_task' = <<0, SendingVoxels(0)>>
    /\ using_size' = size
    /\ i' = 1
    /\ m_pc' = "fill"
    /\ UNCHANGED <<params, status_source, ranking, mlog, workerVars,
                   toWorker, toMaster>>

\* one iteration of "for i in range(1, size)" that sends a task
MasterFillSend ==
    /\ m_pc = "fill"
    /\ i < size
    /\ current_task[2] # 0
    /\ CanSendToWorker(FillDest(i))
    /\ toWorker' = [toWorker EXCEPT ![FillDest(i)] =
                        Append(@, WorkMsg(current_task))]
    /\ mlog' = Append(mlog, MEvent("WORK", FillDest(i), current_task))
    /\ current_task' = NextTask(current_task)
    /\ i' = i + 1
    /\ UNCHANGED <<params, m_pc, using_size, status_source, results, ranking,
                   workerVars, toMaster>>

\* "if current_task[1] == 0: using_size = i; break"
MasterFillBreak ==
    /\ m_pc = "fill"
    /\ i < size
    /\ current_task[2] = 0
    /\ using_size' = FillBreakUsingSize(i)
    /\ m_pc' = "refill"
    /\ UNCHANGED <<params, i, current_task, status_source, results, ranking,
                   mlog, workerVars, toWorker, toMaster>>

\* the fill loop runs out of workers
MasterFillEnd ==
    /\ m_pc = "fill"
    /\ i >= size
    /\ m_pc' = "refill"
    /\ UNCHANGED <<params, i, current_task, using_size, status_source,
                   results, ranking, mlog, workerVars, toWorker, toMaster>>

\* "while using_size == size": recv from any source, results += result
MasterRefillRecv(w) ==
    /\ m_pc = "refill"
    /\ using_size = size
    /\ current_task[2] # 0
    /\ toMaster[w] # <<>>
    /\ results' = results \o Head(toMaster[w])
    /\ toMaster' = [toMaster EXCEPT ![w] = Tail(@)]
    /\ status_source' = w
    /\ mlog' = Append(mlog, MEvent("RECV", w, None))
    /\ m_pc' = "refill_send"
    /\ UNCHANGED <<params, i, current_task, using_size, ranking, workerVars,
                   toWorker>>

\* comm.send(current_task, dest=status.Get_source(), tag=_WORKTAG)
MasterRefillSend ==
    /\ m_pc = "refill_send"
    /\ CanSendToWorker(RefillDest(status_source))
    /\ toWorker' = [toWorker EXCEPT ![RefillDest(status_source)] =
                        Append(@, WorkMsg(current_task))]
    /\ mlog' = Append(mlog, MEvent("WORK", RefillDest(status_source),
                                   current_task))
    /\ current_task' = NextTask(current_task)
    /\ m_pc' = "refill"
    /\ UNCHANGED <<params, i, using_size, status_source, results, ranking,
                   workerVars, toMaster>>

\* the while loop ends: using_size != size, or the break on an empty task
MasterRefillExit ==
    /\ m_pc = "refill"
    /\ (using_size # size \/ current_task[2] = 0)
    /\ m_pc' = "drain"
    /\ i' = 1
    /\ UNCHANGED <<params, current_task, using_size, status_source, results,
                   ranking, mlog, workerVars, toWorker, toMaster>>

\* one iteration of "for i in range(1, using_size)": recv, results += result
MasterDrainRecv(w) ==
    /\ m_pc = "drain"
    /\ i < DrainBound
    /\ toMaster[w] # <<>>
    /\ results' = results \o Head(toMaster[w])
    /\ toMaster' = [toMaster EXCEPT ![w] = Tail(@)]
    /\ mlog' = Append(mlog, MEvent("RECV", w, None))
    /\ i' = i + 1
    /\ UNCHANGED <<params, m_pc, current_task, using_size, status_source,
                   ranking, workerVars, toWorker>>

MasterDrainEnd ==
    /\ m_pc = "drain"
    /\ i >= DrainBound
    /\ m_pc' = "terminate"
    /\ i' = 1
    /\ UNCHANGED <<params, current_task, using_size, status_source, results,
                   ranking, mlog, workerVars, toWorker, toMaster>>

\* one iteration of "for i in range(1, size)": send TERMINATE
MasterTerminateSend ==
    /\ m_pc = "terminate"
    /\ i < TerminateBound
    /\ CanSendToWorker(i)
    /\ toWorker' = [toWorker EXCEPT ![i] = Append(@, TerminateMsg)]
    /\ mlog' = Append(mlog, MEvent("TERMINATE", i, None))
    /\ i' = i + 1
    /\ UNCHANGED <<params, m_pc, current_task, using_size, status_source,
                   results, ranking, workerVars, toMaster>>

\* _master returns results; run sorts them and returns
MasterReturn ==
    /\ m_pc = "terminate"
    /\ i >= TerminateBound
    /\ ranking' = SortByAccuracy(results)
    /\ m_pc' = "returned"
    /\ UNCHANGED <<params, i, current_task, using_size, status_source,
                   results, mlog, workerVars, toWorker, toMaster>>

\* ------------------------------------------------------------ rank w > 0

\* VoxelSelector(...) raises ValueError on rank w
WorkerConstructFails(w) ==
    /\ pc[w] = "new"
    /\ InvalidConfiguration(num_voxels)
    /\ pc' = [pc EXCEPT ![w] = "ValueError"]
    /\ UNCHANGED <<params, masterVars, task, wlog, scored, toWorker,
                   toMaster>>

\* VoxelSelector(...); run(clf) on rank w up to the first recv of _worker
WorkerStart(w) ==
    /\ pc[w] = "new"
    /\ ~InvalidConfiguration(num_voxels)
    /\ pc' = [pc EXCEPT ![w] = "recv"]
    /\ UNCHANGED <<params, masterVars, task, wlog, scored, toWorker,
                   toMaster>>

\* task = comm.recv(source=0, tag=ANY_TAG); if status.Get_tag(): break
WorkerRecv(w) ==
    /\ pc[w] = "recv"
    /\ toWorker[w] # <<>>
    /\ LET msg == Head(toWorker[w]) IN
        /\ task' = [task EXCEPT ![w] = msg.payload]
        /\ wlog' = [wlog EXCEPT ![w] =
                      Append(@, WEvent(IF msg.tag = _WORKTAG THEN "WORK"
                                       ELSE "TERMINATE", msg.payload))]
        /\ pc' = [pc EXCEPT ![w] = IF WorkerBreaks(msg.tag) THEN "done"
                                   ELSE "compute"]
    /\ toWorker' = [toWorker EXCEPT ![w] = Tail(@)]
    /\ UNCHANGED <<params, masterVars, scored, toMaster>>

\* comm.send(self._voxelScoring(task, clf), dest=0)
WorkerSend(w) ==
    /\ pc[w] = "compute"
    /\ task[w] # None
    /\ CanSendToMaster
    /\ toMaster' = [toMaster EXCEPT ![w] = Append(@, VoxelScoring(task[w]))]
    /\ wlog' = [wlog EXCEPT ![w] = Append(@, WEvent("RESULT", task[w]))]
    /\ scored' = [scored EXCEPT ![w] = VoxelScoring(task[w])]
    /\ pc' = [pc EXCEPT ![w] = "recv"]
    /\ UNCHANGED <<params, masterVars, task, toWorker>>

\* _voxelScoring raises: cross_val_score fails on the k-th voxel of the task
\* after k records were appended to the local results (or the task is None,
\* which is not subscriptable).  Nothing catches the exception in _worker:
\* it leaves the loop and the local results are dropped.
WorkerRaise(w) ==
    /\ pc[w] = "compute"
    /\ \E k \in 0..(IF task[w] = None THEN 0 ELSE task[w][2] - 1) :
          LET partial == IF task[w] = None THEN <<>>
                         ELSE CrossValidation(task[w], k) IN
          /\ scored' = [scored EXCEPT ![w] = partial]
          /\ toMaster' = [toMaster EXCEPT ![w] = @ \o SentOnRaise(partial)]
    /\ pc' = [pc EXCEPT ![w] = "raised"]
    /\ UNCHANGED <<params, masterVars, task, wlog, toWorker>>

\* ------------------------------------------------------------------ Next

MasterStep ==
    \/ MasterConstructFails
    \/ MasterStart
    \/ MasterFillSend
    \/ MasterFillBreak
    \/ MasterFillEnd
    \/ \E w \in Workers : MasterRefillRecv(w)
    \/ MasterRefillSend
    \/ MasterRefillExit
    \/ \E w \in Workers : MasterDrainRecv(w)
    \/ MasterDrainEnd
    \/ MasterTerminateSend
    \/ MasterReturn

WorkerStep(w) ==
    \/ WorkerConstructFails(w)
    \/ WorkerStart(w)
    \/ WorkerRecv(w)
    \/ WorkerSend(w)

Next ==
    \/ MasterStep
    \/ \E w \in Workers : WorkerStep(w)
    \/ \E w \in Workers : WorkerRaise(w)

Spec == Init /\ [][Next]_vars

\* every compute pipeline returns, every rank keeps running
NextLive ==
    \/ MasterStep
    \/ \E w \in Workers : WorkerStep(w)

\* the accuracies play no part in the scheduling: one assignment suffices
LiveInit == Init /\ accuracy = [v \in Voxels |-> v % NumScores]

LiveSpec ==
    /\ LiveInit
    /\ [][NextLive]_vars
    /\ WF_vars(MasterStep)
    /\ \A w \in AllRanks : WF_vars(w \in Workers /\ WorkerStep(w))

\* ----------------------------------------------------------- properties

\* the preconditions shared by the scheduler claims
Valid == num_voxels >= 1 /\ voxel_unit >= 1 /\ size >= 2

\* the WORK / TERMINATE sends and the receives of rank 0, in order
WorkEvents == SelectSeq(mlog, LAMBDA e : e.op = "WORK")
TerminateEvents == SelectSeq(mlog, LAMBDA e : e.op = "TERMINATE")
RecvEvents == SelectSeq(mlog, LAMBDA e : e.op = "RECV")

Count(s, P(_)) == Cardinality({j \in DOMAIN s : P(s[j])})
ChunkRange(t) == t[1]..(t[1] + t[2] - 1)

\* C1: when run returns on rank 0 (num_voxels >= 1, voxel_unit >= 1, at
\* least one worker), the returned list has exactly one (voxel_id, accuracy)
\* record for every voxel id of [0, num_voxels): length num_voxels, no
\* duplicate, no omission, no id outside the range.
ResultCompleteness ==
    (m_pc = "returned" /\ Valid) =>
        /\ Len(ranking) = num_voxels
        /\ \A j \in DOMAIN ranking :
              /\ ranking[j][1] \in Voxels
              /\ ranking[j][2] = accuracy[ranking[j][1]]
        /\ \A v \in Voxels :
              Cardinality({j \in DOMAIN ranking : ranking[j][1] = v}) = 1

\* a returned run with several workers, refills, and out-of-order arrival
ResultCompletenessWitness ==
    /\ m_pc = "returned" /\ Valid
    /\ size >= 3 /\ num_voxels >= 4
    /\ Len(WorkEvents) > size - 1
    /\ results[1][1] # 0
    /\ Len(ranking) = num_voxels

\* C2: the list run returns is the stable descending sort by accuracy of
\* the records in arrival order: accuracies are non-increasing, and records
\* of equal accuracy keep the relative order of their arrival in results.
PosIn(s, x) == CHOOSE j \in DOMAIN s : s[j] = x
RankingOrder ==
    m_pc = "returned" =>
        /\ Len(ranking) = Len(results)
        /\ \A j \in DOMAIN ranking : \E k \in DOMAIN results :
              results[k] = ranking[j]
        /\ \A a, b \in DOMAIN ranking :
              a < b => ranking[a][2] >= ranking[b][2]
        /\ \A a, b \in DOMAIN ranking :
              (a < b /\ ranking[a][2] = ranking[b][2]) =>
                  PosIn(results, ranking[a]) < PosIn(results, ranking[b])

\* a returned ranking with a tie whose arrival order is not voxel-id order
RankingOrderWitness ==
    /\ m_pc = "returned"
    /\ \E a, b \in DOMAIN ranking :
          /\ a < b
          /\ ranking[a][2] = ranking[b][2]
          /\ ranking[a][1] > ranking[b][1]
    /\ \E a, b \in DOMAIN ranking : ranking[a][2] > ranking[b][2]

\* C3: the chunks of the WORK messages sent in one run are non-empty,
\* pairwise disjoint, lie inside [0, num_voxels), and once the master has
\* left the refill phase their union is the whole range; every WORK message
\* is received at most once, by the worker it was addressed to.
SentTo(w) == SelectSeq(mlog, LAMBDA e : e.op = "WORK" /\ e.peer = w)
ReceivedBy(w) == SelectSeq(wlog[w], LAMBDA e : e.op = "WORK")
ChunkCoverage ==
    Valid =>
        /\ \A a \in DOMAIN WorkEvents :
              /\ WorkEvents[a].task[2] >= 1
              /\ ChunkRange(WorkEvents[a].task) \subseteq Voxels
              /\ WorkEvents[a].peer \in Workers
        /\ \A a, b \in DOMAIN WorkEvents :
              a # b => ChunkRange(WorkEvents[a].task)
                         \cap ChunkRange(WorkEvents[b].task) = {}
        /\ m_pc \in {"drain", "terminate", "returned"} =>
              UNION {ChunkRange(WorkEvents[a].task) : a \in DOMAIN WorkEvents}
                  = Voxels
        /\ \A w \in Workers :
              /\ Len(ReceivedBy(w)) + Count(toWorker[w],
                      LAMBDA m : m.tag = _WORKTAG) = Len(SentTo(w))
              /\ \A j \in DOMAIN ReceivedBy(w) :
                    ReceivedBy(w)[j].task = SentTo(w)[j].task

\* all chunks are out, there were more chunks than workers and a short tail
ChunkCoverageWitness ==
    /\ Valid
    /\ m_pc = "drain"
    /\ Len(WorkEvents) > size - 1
    /\ WorkEvents[Len(WorkEvents)].task[2] < voxel_unit
    /\ \A w \in Workers : Len(ReceivedBy(w)) >= 1

\* C4: when the master has returned and there is at least one worker, it
\* has sent exactly size-1 TERMINATE messages, exactly one to each worker,
\* also to the workers that never got a WORK message.
SchedulerTermination ==
    (m_pc = "returned" /\ size >= 2) =>
        /\ Len(TerminateEvents) = size - 1
        /\ \A w \in Workers :
              Count(mlog, LAMBDA e : e.op = "TERMINATE" /\ e.peer = w) = 1
        /\ \A j \in DOMAIN TerminateEvents :
              TerminateEvents[j].peer \in Workers

\* a returned run in which some worker was never sent work
SchedulerTerminationWitness ==
    /\ m_pc = "returned" /\ Valid
    /\ size >= 3
    /\ SentTo(size - 1) = <<>>
    /\ SentTo(1) # <<>>
    /\ Len(TerminateEvents) = size - 1

\* C5: for every worker, the number of WORK messages the master has sent to
\* it minus the number of results the master has received from it is 0 or 1.
Outstanding(w) ==
    Len(SentTo(w)) - Count(mlog, LAMBDA e : e.op = "RECV" /\ e.peer = w)
OneOutstandingChunk ==
    \A w \in Workers : Outstanding(w) \in {0, 1}

\* a worker that was refilled and owes the result of its second chunk
OneOutstandingChunkWitness ==
    \E w \in Workers :
        /\ Len(SentTo(w)) >= 2
        /\ Outstanding(w) = 1
        /\ \E u \in Workers : u # w /\ Outstanding(u) = 1

\* C6: with at least one voxel, a positive chunk size and at least one
\* worker, under fair scheduling and compute pipelines that return, the
\* master eventually returns its ranking and every worker eventually
\* receives TERMINATE and leaves its loop.
AllFinished ==
    /\ m_pc = "returned"
    /\ \A w \in Workers : pc[w] = "done"
RunCompletion == Valid ~> AllFinished

\* a finished run that went through fill, refill and drain
RunCompletionWitness ==
    /\ Valid /\ AllFinished
    /\ Len(WorkEvents) > size - 1
    /\ size >= 3
    /\ Len(RecvEvents) = Len(WorkEvents)

\* C7: when voxel_unit >= num_voxels >= 1 and there is at least one worker,
\* at most one WORK message is ever sent, it carries (0, num_voxels), and
\* once the master has returned exactly one was sent; no other worker gets
\* anything but TERMINATE, and every worker is sent TERMINATE, which it has
\* received when it is done.
HasTerminate(w) ==
    \/ \E j \in DOMAIN wlog[w] : wlog[w][j].op = "TERMINATE"
    \/ \E j \in DOMAIN toWorker[w] : toWorker[w][j].tag = _TERMINATETAG
SingleChunk ==
    (Valid /\ voxel_unit >= num_voxels) =>
        /\ Len(WorkEvents) <= 1
        /\ \A a \in DOMAIN WorkEvents :
              WorkEvents[a].task = <<0, num_voxels>>
        /\ \A w \in Workers :
              (WorkEvents = <<>> \/ WorkEvents[1].peer # w) =>
                  /\ \A j \in DOMAIN toWorker[w] :
                        toWorker[w][j] = TerminateMsg
                  /\ \A j \in DOMAIN wlog[w] : wlog[w][j].op = "TERMINATE"
                  /\ Len(toWorker[w]) + Len(wlog[w]) <= 1
        /\ m_pc = "returned" =>
              /\ Len(WorkEvents) = 1
              /\ \A w \in Workers : HasTerminate(w)
        /\ \A w \in Workers : pc[w] = "done" =>
              wlog[w][Len(wlog[w])].op = "TERMINATE"

\* one chunk, three workers, everything finished
SingleChunkWitness ==
    /\ Valid /\ voxel_unit > num_voxels /\ num_voxels >= 2
    /\ size = 4
    /\ AllFinished
    /\ Len(wlog[1]) = 3
    /\ wlog[2] = <<WEvent("TERMINATE", None)>>
    /\ wlog[3] = <<WEvent("TERMINATE", None)>>

\* C8: with num_voxels = 0 construction raises ValueError on every rank: no
\* rank reaches the scheduler or the worker loop, and no WORK, result or
\* TERMINATE message is ever sent.
ZeroVoxelsRejected ==
    num_voxels = 0 =>
        /\ m_pc \in {"new", "ValueError"}
        /\ \A w \in Workers : pc[w] \in {"new", "ValueError"}
        /\ mlog = <<>>
        /\ \A w \in AllRanks :
              toWorker[w] = <<>> /\ toMaster[w] = <<>> /\ wlog[w] = <<>>
        /\ results = <<>> /\ ranking = <<>>

\* construction has failed on the master and on every one of three workers
ZeroVoxelsRejectedWitness ==
    /\ num_voxels = 0
    /\ size = 4
    /\ m_pc = "ValueError"
    /\ \A w \in Workers : pc[w] = "ValueError"

\* C9: the accuracies along the returned ranking are the same for every
\* arrival order (the accuracies of all voxels in descending order), and
\* when the accuracies are pairwise distinct the whole ranking is a
\* function of the accuracies alone, whatever order the results arrived in.
DistinctAccuracies ==
    \A u, v \in Voxels : u # v => accuracy[u] # accuracy[v]
RankOf(v) == 1 + Cardinality({u \in Voxels : accuracy[u] > accuracy[v]})
RankingByAccuracyAlone ==
    [j \in 1..num_voxels |->
        LET v == CHOOSE u \in Voxels : RankOf(u) = j IN <<v, accuracy[v]>>]
ArrivalOrderIndependence ==
    (m_pc = "returned" /\ Valid) =>
        /\ \A j \in DOMAIN ranking :
              /\ Cardinality({u \in Voxels : accuracy[u] > ranking[j][2]}) < j
              /\ Cardinality({u \in Voxels : accuracy[u] >= ranking[j][2]})
                    >= j
        /\ DistinctAccuracies => ranking = RankingByAccuracyAlone

\* distinct accuracies, results arrived neither in voxel order nor ranked
ArrivalOrderIndependenceWitness ==
    /\ m_pc = "returned" /\ Valid
    /\ DistinctAccuracies
    /\ num_voxels >= 3
    /\ results # ranking
    /\ results[1][1] # 0
    /\ ranking[1][1] # 0

\* C10: a worker's history is (WORK RESULT)* followed by at most one WORK
\* or TERMINATE: every result is the reply to the WORK just received and is
\* sent before the next receive, nothing follows TERMINATE, the worker is
\* done exactly when it has received TERMINATE, and the messages it has sent
\* to the master are exactly its results.
WorkerProtocol ==
    \A w \in Workers :
        /\ \A j \in DOMAIN wlog[w] :
              /\ wlog[w][j].op = "RESULT" <=>
                    (j > 1 /\ wlog[w][j - 1].op = "WORK")
              /\ wlog[w][j].op = "RESULT" =>
                    wlog[w][j].task = wlog[w][j - 1].task
              /\ wlog[w][j].op = "TERMINATE" => j = Len(wlog[w])
        /\ pc[w] = "done" <=>
              (wlog[w] # <<>> /\ wlog[w][Len(wlog[w])].op = "TERMINATE")
        /\ pc[w] = "recv" =>
              (wlog[w] = <<>> \/ wlog[w][Len(wlog[w])].op = "RESULT")
        /\ pc[w] \in {"recv", "done"} =>
              Count(wlog[w], LAMBDA e : e.op = "RESULT")
                  = Count(wlog[w], LAMBDA e : e.op = "WORK")
        /\ Count(wlog[w], LAMBDA e : e.op = "RESULT")
              = Len(toMaster[w])
                  + Count(mlog, LAMBDA e : e.op = "RECV" /\ e.peer = w)

\* a worker that answered two WORK messages and then received TERMINATE
WorkerProtocolWitness ==
    \E w \in Workers :
        /\ pc[w] = "done"
        /\ Len(wlog[w]) = 5
        /\ wlog[w][1].op = "WORK" /\ wlog[w][2].op = "RESULT"
        /\ wlog[w][3].op = "WORK" /\ wlog[w][4].op = "RESULT"
        /\ wlog[w][5].op = "TERMINATE"

\* C11: the WORK messages go out in increasing voxel order, each chunk
\* starting where the previously sent chunk ended (the first at 0); the
\* fill sends come first, and the k-th of them goes to worker k.
AssignmentOrder ==
    \A k \in DOMAIN WorkEvents :
        /\ k = 1 => WorkEvents[k].task[1] = 0
        /\ k > 1 =>
              /\ WorkEvents[k].task[1] > WorkEvents[k - 1].task[1]
              /\ WorkEvents[k].task[1] =
                    WorkEvents[k - 1].task[1] + WorkEvents[k - 1].task[2]
              /\ WorkEvents[k].phase = "fill" =>
                    WorkEvents[k - 1].phase = "fill"
        /\ WorkEvents[k].phase = "fill" => WorkEvents[k].peer = k
        /\ k <= size - 1 => WorkEvents[k].phase = "fill"

\* three workers filled in order, then a refill that goes to worker 3 first
AssignmentOrderWitness ==
    /\ size = 4
    /\ Len(WorkEvents) = 4
    /\ WorkEvents[1].peer = 1 /\ WorkEvents[2].peer = 2
    /\ WorkEvents[3].peer = 3 /\ WorkEvents[4].peer = 3
    /\ WorkEvents[4].task[1] = 3

\* C12: when there are at most as many chunks as workers, the master
\* neither receives nor sends in the refill phase, exactly workers
\* 1..NumChunks hold a chunk when fill has ended, the receives still to do
\* in drain always equal the results still owed, and drain ends after
\* exactly NumChunks receives, one from each of these workers.
NumChunks == (num_voxels + voxel_unit - 1) \div voxel_unit
FewChunks == Valid /\ NumChunks <= size - 1
FewerChunksThanWorkers ==
    FewChunks =>
        /\ m_pc # "refill_send"
        /\ \A j \in DOMAIN mlog :
              mlog[j].phase \in {"fill", "drain", "terminate"}
        /\ m_pc \in {"refill", "drain", "terminate", "returned"} =>
              /\ Len(WorkEvents) = NumChunks
              /\ \A k \in DOMAIN WorkEvents : WorkEvents[k].peer = k
        /\ m_pc = "drain" =>
              using_size - i = Len(WorkEvents) - Len(RecvEvents)
        /\ m_pc \in {"terminate", "returned"} =>
              /\ Len(RecvEvents) = NumChunks
              /\ \A w \in 1..NumChunks :
                    Count(mlog, LAMBDA e : e.op = "RECV" /\ e.peer = w
                                           /\ e.phase = "drain") = 1

\* two chunks, three workers, run finished with results arriving 2 then 1
FewerChunksThanWorkersWitness ==
    /\ FewChunks /\ NumChunks = 2 /\ size = 4
    /\ m_pc = "returned"
    /\ RecvEvents[1].peer = 2 /\ RecvEvents[2].peer = 1
    /\ using_size = 3

\* C13: a receive of the refill phase happens only after each of the size-1
\* workers was sent a chunk and while unassigned voxels remain; the very
\* next thing the master does is send the next chunk to the worker that
\* result came from; once every voxel is assigned no refill receive follows.
AssignedBefore(j) ==
    UNION {ChunkRange(mlog[k].task) :
              k \in {n \in 1..(j - 1) : mlog[n].op = "WORK"}}
ReactiveRefill ==
    Valid =>
        /\ \A j \in DOMAIN mlog :
              /\ mlog[j].phase = "refill" =>
                    /\ mlog[j].op = "RECV"
                    /\ j > size - 1
                    /\ \A k \in 1..(size - 1) :
                          /\ mlog[k].op = "WORK"
                          /\ mlog[k].peer = k
                          /\ mlog[k].phase = "fill"
                    /\ AssignedBefore(j) # Voxels
                    /\ IF j < Len(mlog)
                       THEN /\ mlog[j + 1].op = "WORK"
                            /\ mlog[j + 1].peer = mlog[j].peer
                            /\ mlog[j + 1].phase = "refill_send"
                       ELSE m_pc = "refill_send"
              /\ mlog[j].phase = "refill_send" =>
                    /\ mlog[j].op = "WORK"
                    /\ j > 1 /\ mlog[j - 1].phase = "refill"
              /\ mlog[j].phase \in {"drain", "terminate"} =>
                    AssignedBefore(j) = Voxels
        /\ m_pc = "refill_send" =>
              /\ mlog # <<>>
              /\ mlog[Len(mlog)].phase = "refill"
              /\ mlog[Len(mlog)].peer = status_source

\* two refills in a row, answered to worker 2 and then to worker 1
ReactiveRefillWitness ==
    /\ Valid /\ size = 3
    /\ m_pc = "returned"
    /\ \E j \in DOMAIN mlog :
          /\ j + 3 <= Len(mlog)
          /\ mlog[j].phase = "refill" /\ mlog[j].peer = 2
          /\ mlog[j + 1].op = "WORK" /\ mlog[j + 1].peer = 2
          /\ mlog[j + 2].phase = "refill" /\ mlog[j + 2].peer = 1
          /\ mlog[j + 3].op = "WORK" /\ mlog[j + 3].peer = 1

\* C14: from the moment the master starts sending TERMINATE it has received
\* as many results as it sent WORK messages, no worker owes a result or is
\* computing, no result and no WORK message is in flight; nothing but
\* TERMINATE sends follows a TERMINATE in the master's history.
TerminateAfterDrain ==
    /\ TerminateEvents # <<>> => m_pc \in {"terminate", "returned"}
    /\ m_pc \in {"terminate", "returned"} =>
          /\ Len(RecvEvents) = Len(WorkEvents)
          /\ \A w \in Workers :
                /\ Outstanding(w) = 0
                /\ toMaster[w] = <<>>
                /\ pc[w] \notin {"compute", "raised"}
                /\ \A j \in DOMAIN toWorker[w] :
                      toWorker[w][j].tag = _TERMINATETAG
    /\ \A j, k \in DOMAIN mlog :
          (mlog[j].op = "TERMINATE" /\ j < k) => mlog[k].op = "TERMINATE"

\* the first TERMINATE is out after a run with refills
TerminateAfterDrainWitness ==
    /\ Valid /\ size >= 3
    /\ m_pc = "terminate" /\ i = 2
    /\ Len(TerminateEvents) = 1
    /\ Len(WorkEvents) > size - 1

\* C15: the k-th WORK message (k = 1, 2, ...) carries start (k-1)*voxel_unit
\* and count min(voxel_unit, num_voxels - start); the count is between 1
\* and voxel_unit, the chunk ends inside the range, only the last chunk is
\* shorter than voxel_unit, and once the refill phase is left exactly
\* ceil(num_voxels / voxel_unit) WORK messages were sent.
Min(a, b) == IF a < b THEN a ELSE b
ChunkShape ==
    Valid =>
        /\ \A k \in DOMAIN WorkEvents :
              LET start == (k - 1) * voxel_unit
                  count == WorkEvents[k].task[2] IN
              /\ WorkEvents[k].task[1] = start
              /\ count = Min(voxel_unit, num_voxels - start)
              /\ 1 <= count /\ count <= voxel_unit
              /\ start + count <= num_voxels
              /\ k < Len(WorkEvents) => count = voxel_unit
        /\ Len(WorkEvents) <= NumChunks
        /\ m_pc \in {"drain", "terminate", "returned"} =>
              Len(WorkEvents) = NumChunks

\* a finished run of several chunks of more than one voxel with a short tail
ChunkShapeWitness ==
    /\ Valid /\ m_pc = "returned"
    /\ voxel_unit >= 2
    /\ Len(WorkEvents) >= 2
    /\ WorkEvents[Len(WorkEvents)].task[2] < voxel_unit

ClassificationFailureAborts ==
    \A w \in Workers :
        pc[w] = "raised" =>
            /\ wlog[w] # <<>>
            /\ wlog[w][Len(wlog[w])] = WEvent("WORK", task[w])
            /\ toMaster[w] = <<>>
            /\ Outstanding(w) = 1
            /\ \A j \in DOMAIN results :
                  results[j][1] \notin ChunkRange(task[w])
            /\ m_pc \notin {"terminate", "returned"}
            /\ ranking = <<>>

\* a worker failed on the second voxel of its chunk; the master has results
\* of other chunks and waits in drain
ClassificationFailureAbortsWitness ==
    \E w \in Workers :
        /\ pc[w] = "raised"
        /\ Len(scored[w]) >= 1
        /\ results # <<>>
        /\ m_pc = "drain"

\* C19 (as claimed): with no worker (size = 1) and at least one voxel the
\* master sends nothing and never waits in a receive.
MasterAloneNeverBlocks ==
    (size = 1 /\ num_voxels >= 1) =>
        /\ mlog = <<>>
        /\ ~MasterInRecv

\* C20 (as claimed): for every voxel_unit >= 0, whenever _master has
\* returned with at least one worker and one voxel, its result set holds
\* one record for every voxel id.
CompleteForAnyChunkSize ==
    (m_pc = "returned" /\ num_voxels >= 1 /\ size >= 2) =>
        /\ Len(results) = num_voxels
        /\ \A v \in Voxels : \E j \in DOMAIN results : results[j][1] = v

====
